---------------------------- MODULE Spec2Model ----------------------------
(***************************************************************************)
(* One RPiGPIOPin (gpiozero/pins/rpigpio.py) together with the RPi.GPIO    *)
(* line it drives, the control thread that calls the pin's accessors and   *)
(* the RPi.GPIO notification thread that runs the edge callback.           *)
(*                                                                         *)
(* Representation.  An optional value is a sequence: <<>> is None and      *)
(* <<v>> is the value v.  Pin states (digital levels and duty cycles) are  *)
(* counted in units of 1/Scale, so 1.0 is Scale and 0.5 is Scale \div 2.   *)
(* Bounce times given to set_bounce are counted in units of 1/BounceScale  *)
(* of a second; the stored _bounce is in milliseconds as in the source.    *)
(*                                                                         *)
(* RPi.GPIO.  The library calls of the source act on the line as follows.  *)
(* GPIO.setup sets the direction and the pull resistor of the line.        *)
(* GPIO.output raises ValueError for a value that is no level and          *)
(* RuntimeError on a line that is not an output (the two exceptions        *)
(* _set_state catches).  ChangeDutyCycle raises ValueError outside 0..100. *)
(* GPIO.PWM raises RuntimeError when the library refuses the channel,      *)
(* which is an input of _set_frequency here.  A PWM at duty cycle 0 and a  *)
(* stopped PWM hold an output line low.  GPIO.add_event_detect registers   *)
(* edge detection with the edge mode and bounce time it is given and       *)
(* raises ValueError for a bounce time that is neither above 0 nor -666;   *)
(* GPIO.remove_event_detect removes it; the registered callback runs on    *)
(* the library's notification thread.  GPIO.cleanup gives a line back as a *)
(* floating input without edge detection.                                  *)
(*                                                                         *)
(* The when_changed property and the body of _call_when_changed belong to  *)
(* the base classes of RPiGPIOPin, and the closing of the pins a factory   *)
(* holds to the base class of RPiGPIOFactory; they are modelled as the     *)
(* specification of the pin describes them.  The setter stores the         *)
(* callback before it registers edge detection.                            *)
(***************************************************************************)
EXTENDS Integers, Sequences, FiniteSets, TLC

VARIABLES
    pulled_up,     \* factory.pi_info.pulled_up(repr(self)): the board fixes a pull-up
    pull,          \* self._pull
    pwm,           \* self._pwm is not None
    frequency,     \* self._frequency
    duty_cycle,    \* self._duty_cycle
    bounce,        \* self._bounce (milliseconds, NoBounce when unset)
    edges,         \* self._edges
    when_changed,  \* the attached callback (LocalPiPin._when_changed)
    hw_function,   \* direction RPi.GPIO holds for the line (GPIO.gpio_function)
    hw_pud,        \* pull resistor setting last given to GPIO.setup
    level,         \* level of the line (GPIO.input)
    event,         \* edge detection registered with RPi.GPIO: <<>> or <<[edge, bouncetime]>>
    hw_claimed,    \* RPi.GPIO holds the line set up (GPIO.setup since the last GPIO.cleanup)
    owned,         \* the factory's pins hold the pin
    hw_claims,     \* times the factory has claimed RPi.GPIO (GPIO.setmode)
    hw_releases,   \* times the factory has released RPi.GPIO (GPIO.cleanup())
    pc,            \* position of the control thread inside _set_bounce / _set_edges
    arg,           \* argument of the call the control thread is inside
    saved_f,       \* local f of _set_bounce / _set_edges
    irq_pc,        \* position of the notification thread
    irq_dir,       \* direction of the edge the notification thread is delivering
    irq_method,    \* callback the notification thread has fetched
    op,            \* last operation the control thread called
    err,           \* its outcome: "ok", "pending" or the exception raised
    snap,          \* history: the pin's attributes when the call in progress began
    pre_pwm        \* history: state of the output pin when the running PWM was started

vars == <<pulled_up, pull, pwm, frequency, duty_cycle, bounce, edges, when_changed,
          hw_function, hw_pud, level, event, hw_claimed, owned, hw_claims, hw_releases,
          pc, arg, saved_f,
          irq_pc, irq_dir, irq_method, op, err, snap, pre_pwm>>

pinVars == <<pull, pwm, frequency, duty_cycle, bounce, edges, when_changed>>
hwVars  == <<hw_function, hw_pud, level, event, hw_claimed>>
facVars == <<owned, hw_claims, hw_releases>>
ctlVars == <<pc, arg, saved_f>>
irqVars == <<irq_pc, irq_dir, irq_method>>
histVars == <<snap, pre_pwm>>

---------------------------------------------------------------------------
\* Values

None == <<>>
Some(v) == <<v>>

Scale == 1000
BounceScale == 10000
NoBounce == -666

GPIO_FUNCTIONS == {"input", "output", "i2c", "spi", "pwm", "serial", "unknown"}
GPIO_PULL_UPS == {"up", "down", "floating"}
GPIO_EDGES == {"both", "rising", "falling"}

\* Inputs the control thread draws its arguments from.
FunctionInputs == {"input", "output", "spi", "bogus"}
PullInputs == {"up", "down", "floating", "bogus"}
EdgesInputs == {"both", "rising", "falling", "bogus"}
MaxFreq == 2
FrequencyInputs == {None} \cup {Some(100 * k) : k \in 1..MaxFreq}
StateInputs == {-(Scale \div 2), 0, Scale \div 2, Scale, Scale + Scale \div 2}
DigitalInputs == {0, Scale}
\* -0.0005 s, 0 s, 0.0005 s, 0.0025 s
BounceInputs == {None, Some(-5), Some(0), Some(5), Some(25)}
Callbacks == {"f"}
WhenChangedInputs == {None} \cup {Some(c) : c \in Callbacks}
\* factory.close() is called at most MaxReleases times
MaxReleases == 2

---------------------------------------------------------------------------
\* Getters

\* _get_function: the direction RPi.GPIO reports for the line
Function == hw_function

\* _get_pull
GetPull == pull

\* _get_state
GetState == IF pwm THEN duty_cycle ELSE Some(level * Scale)

\* _get_frequency
GetFrequency == frequency

\* _get_bounce: None if _bounce == -666 else _bounce / 1000, in 1/BounceScale s
GetBounce == IF bounce = NoBounce THEN None ELSE Some((bounce * BounceScale) \div 1000)

\* _get_edges
GetEdges == edges

\* the attributes of the pin as its getters report them
Attributes ==
    [function |-> Function, pull |-> GetPull, state |-> GetState,
     frequency |-> GetFrequency, bounce |-> GetBounce, edges |-> GetEdges,
     when_changed |-> when_changed]

---------------------------------------------------------------------------
\* RPiGPIOPin.__init__

Init ==
    /\ pulled_up \in BOOLEAN
    /\ pull = IF pulled_up THEN "up" ELSE "floating"
    /\ pwm = FALSE
    /\ frequency = None
    /\ duty_cycle = None
    /\ bounce = NoBounce
    /\ edges = "both"
    /\ when_changed = None
    /\ hw_function = "input"
    /\ hw_pud = pull
    /\ level \in {0, 1}
    /\ event = None
    /\ hw_claimed = TRUE
    /\ owned = TRUE
    /\ hw_claims = 1
    /\ hw_releases = 0
    /\ pc = "idle"
    /\ arg = None
    /\ saved_f = None
    /\ irq_pc = "idle"
    /\ irq_dir = "none"
    /\ irq_method = None
    /\ op = "init"
    /\ err = "ok"
    /\ snap = None
    /\ pre_pwm = None

\* the control thread is between two calls
Idle == pc = "idle"

\* the control thread returns from (or raises out of) operation o
Done(o, e) == op' = o /\ err' = e /\ UNCHANGED ctlVars


---------------------------------------------------------------------------
\* Edge detection (RPi.GPIO registration and the when_changed setter)

\* GPIO.add_event_detect takes a bounce time above 0 or -666 (none given) and
\* raises ValueError for any other
BouncetimeAccepted(bouncetime) == bouncetime > 0 \/ bouncetime = NoBounce

EnableEventDetectBothEdges ==
    event' = IF BouncetimeAccepted(bounce)
               THEN Some([edge |-> "both", bouncetime |-> bounce])
               ELSE event

\* _enable_event_detect: GPIO.add_event_detect(number, _edges, bouncetime=_bounce)
EnableEventDetect ==
    event' = IF BouncetimeAccepted(bounce)
               THEN Some([edge |-> edges, bouncetime |-> bounce])
               ELSE event

\* _disable_event_detect: GPIO.remove_event_detect(number)
DisableEventDetect == event' = None

\* when_changed = value: detection is enabled when a callback is attached to a
\* pin that had none and disabled when the callback of a pin is cleared
AssignWhenChanged(value) ==
    /\ when_changed' = value
    /\ IF value = None
         THEN IF when_changed # None THEN DisableEventDetect ELSE UNCHANGED event
         ELSE IF when_changed = None THEN EnableEventDetect ELSE UNCHANGED event

\* when_changed = value raises: _enable_event_detect is called and
\* GPIO.add_event_detect refuses the stored bounce time
AttachRaises(value) ==
    value # None /\ when_changed = None /\ ~BouncetimeAccepted(bounce)

\* pin.when_changed = value, called by the control thread
SetWhenChanged(value) ==
    /\ Idle
    /\ AssignWhenChanged(value)
    /\ UNCHANGED <<pulled_up, pull, pwm, frequency, duty_cycle, bounce, edges>>
    /\ UNCHANGED <<hw_function, hw_pud, hw_claimed, level>>
    /\ UNCHANGED irqVars
    /\ UNCHANGED facVars
    /\ UNCHANGED histVars
    /\ Done("set_when_changed", IF AttachRaises(value) THEN "ValueError" ELSE "ok")

---------------------------------------------------------------------------
\* function and pull

\* GPIO.setup(number, direction, pud)
GpioSetup(direction, pud) ==
    /\ hw_function' = direction
    /\ hw_pud' = pud
    /\ hw_claimed' = TRUE

\* output_with_state as it would be without the reset of _pull
OutputWithStateKeepsPull(state) ==
    /\ Idle
    /\ GpioSetup("output", "floating")
    /\ level' = (IF state = 0 THEN 0 ELSE 1)
    /\ UNCHANGED <<pulled_up, pull, pwm, frequency, duty_cycle, bounce, edges, when_changed, event>>
    /\ pre_pwm' = None
    /\ UNCHANGED snap
    /\ UNCHANGED irqVars
    /\ UNCHANGED facVars
    /\ Done("output_with_state", "ok")

\* output_with_state(state)
OutputWithState(state) ==
    /\ Idle
    /\ pull' = "floating"
    /\ GpioSetup("output", "floating")
    /\ level' = (IF state = 0 THEN 0 ELSE 1)
    /\ UNCHANGED <<pulled_up, pwm, frequency, duty_cycle, bounce, edges, when_changed, event>>
    /\ pre_pwm' = None
    /\ UNCHANGED snap
    /\ UNCHANGED irqVars
    /\ UNCHANGED facVars
    /\ Done("output_with_state", "ok")

\* input_with_pull(pull)
InputWithPull(value) ==
    /\ Idle
    /\ IF value # "up" /\ pulled_up
         THEN /\ UNCHANGED <<pull, hw_function, hw_pud, hw_claimed>>
              /\ Done("input_with_pull", "PinFixedPull")
         ELSE IF value \in GPIO_PULL_UPS
                THEN /\ GpioSetup("input", value)
                     /\ pull' = value
                     /\ Done("input_with_pull", "ok")
                ELSE /\ UNCHANGED <<pull, hw_function, hw_pud, hw_claimed>>
                     /\ Done("input_with_pull", "PinInvalidPull")
    /\ UNCHANGED <<pulled_up, pwm, frequency, duty_cycle, bounce, edges, when_changed>>
    /\ UNCHANGED <<level, event>>
    /\ pre_pwm' = None
    /\ UNCHANGED snap
    /\ UNCHANGED irqVars
    /\ UNCHANGED facVars

\* _set_function(value)
SetFunction(value) ==
    /\ Idle
    /\ pull' = (IF value # "input" THEN "floating" ELSE pull)
    /\ IF value \in {"input", "output"} /\ value \in GPIO_FUNCTIONS
         THEN /\ GpioSetup(value, pull')
              /\ Done("set_function", "ok")
         ELSE /\ UNCHANGED <<hw_function, hw_pud, hw_claimed>>
              /\ Done("set_function", "PinInvalidFunction")
    /\ UNCHANGED <<pulled_up, pwm, frequency, duty_cycle, bounce, edges, when_changed>>
    /\ UNCHANGED <<level, event>>
    /\ pre_pwm' = None
    /\ UNCHANGED snap
    /\ UNCHANGED irqVars
    /\ UNCHANGED facVars

\* _set_pull as it would be with the name looked up before the fixed pull is tested
SetPullValidatesFirst(value) ==
    /\ Idle
    /\ IF Function # "input"
         THEN /\ UNCHANGED <<pull, hw_function, hw_pud, hw_claimed>>
              /\ Done("set_pull", "PinFixedPull")
         ELSE IF value \notin GPIO_PULL_UPS
                THEN /\ UNCHANGED <<pull, hw_function, hw_pud, hw_claimed>>
                     /\ Done("set_pull", "PinInvalidPull")
                ELSE IF value # "up" /\ pulled_up
                       THEN /\ UNCHANGED <<pull, hw_function, hw_pud, hw_claimed>>
                            /\ Done("set_pull", "PinFixedPull")
                       ELSE /\ GpioSetup("input", value)
                            /\ pull' = value
                            /\ Done("set_pull", "ok")
    /\ UNCHANGED <<pulled_up, pwm, frequency, duty_cycle, bounce, edges, when_changed>>
    /\ UNCHANGED <<level, event>>
    /\ pre_pwm' = None
    /\ UNCHANGED snap
    /\ UNCHANGED irqVars
    /\ UNCHANGED facVars

SetPullNoFunctionCheck(value) ==
    /\ Idle
    /\ IF value # "up" /\ pulled_up
         THEN /\ UNCHANGED <<pull, hw_function, hw_pud, hw_claimed>>
              /\ Done("set_pull", "PinFixedPull")
         ELSE IF value \in GPIO_PULL_UPS
                THEN /\ GpioSetup("input", value)
                     /\ pull' = value
                     /\ Done("set_pull", "ok")
                ELSE /\ UNCHANGED <<pull, hw_function, hw_pud, hw_claimed>>
                     /\ Done("set_pull", "PinInvalidPull")
    /\ UNCHANGED <<pulled_up, pwm, frequency, duty_cycle, bounce, edges, when_changed>>
    /\ UNCHANGED <<level, event>>
    /\ pre_pwm' = None
    /\ UNCHANGED snap
    /\ UNCHANGED irqVars
    /\ UNCHANGED facVars

\* _set_pull(value)
SetPull(value) ==
    /\ Idle
    /\ IF Function # "input"
         THEN /\ UNCHANGED <<pull, hw_function, hw_pud, hw_claimed>>
              /\ Done("set_pull", "PinFixedPull")
         ELSE IF value # "up" /\ pulled_up
                THEN /\ UNCHANGED <<pull, hw_function, hw_pud, hw_claimed>>
                     /\ Done("set_pull", "PinFixedPull")
                ELSE IF value \in GPIO_PULL_UPS
                       THEN /\ GpioSetup("input", value)
                            /\ pull' = value
                            /\ Done("set_pull", "ok")
                       ELSE /\ UNCHANGED <<pull, hw_function, hw_pud, hw_claimed>>
                            /\ Done("set_pull", "PinInvalidPull")
    /\ UNCHANGED <<pulled_up, pwm, frequency, duty_cycle, bounce, edges, when_changed>>
    /\ UNCHANGED <<level, event>>
    /\ pre_pwm' = None
    /\ UNCHANGED snap
    /\ UNCHANGED irqVars
    /\ UNCHANGED facVars

---------------------------------------------------------------------------
\* state and frequency

\* _set_state with PWM running as it would be if it recorded the percentage
\* given to ChangeDutyCycle instead of the value
SetStatePWMStoresPercent(value) ==
    /\ Idle
    /\ pwm
    /\ LET dc == value * 100
       IN IF dc < 0 \/ dc > 100 * Scale
            THEN /\ UNCHANGED duty_cycle
                 /\ Done("set_state", "PinInvalidState")
            ELSE /\ duty_cycle' = Some(dc)
                 /\ Done("set_state", "ok")
    /\ UNCHANGED <<pulled_up, pull, pwm, frequency, bounce, edges, when_changed>>
    /\ UNCHANGED hwVars
    /\ UNCHANGED histVars
    /\ UNCHANGED irqVars
    /\ UNCHANGED facVars

\* _set_state(value) with PWM running: self._pwm.ChangeDutyCycle(value * 100),
\* which raises ValueError outside 0..100
SetStatePWM(value) ==
    /\ Idle
    /\ pwm
    /\ LET dc == value * 100
       IN IF dc < 0 \/ dc > 100 * Scale
            THEN /\ UNCHANGED duty_cycle
                 /\ Done("set_state", "PinInvalidState")
            ELSE /\ duty_cycle' = Some(value)
                 /\ Done("set_state", "ok")
    /\ UNCHANGED <<pulled_up, pull, pwm, frequency, bounce, edges, when_changed>>
    /\ UNCHANGED hwVars
    /\ UNCHANGED histVars
    /\ UNCHANGED irqVars
    /\ UNCHANGED facVars

\* _set_state without PWM as it would be if the RuntimeError of GPIO.output
\* on an input line were swallowed
SetStateDigitalUnchecked(value) ==
    /\ Idle
    /\ ~pwm
    /\ IF value \notin DigitalInputs
         THEN /\ UNCHANGED level
              /\ Done("set_state", "PinInvalidState")
         ELSE IF hw_function # "output"
                THEN /\ UNCHANGED level
                     /\ Done("set_state", "ok")
                ELSE /\ level' = value \div Scale
                     /\ Done("set_state", "ok")
    /\ UNCHANGED <<pulled_up, pull, pwm, frequency, duty_cycle, bounce, edges, when_changed>>
    /\ UNCHANGED <<hw_function, hw_pud, hw_claimed, event>>
    /\ UNCHANGED histVars
    /\ UNCHANGED irqVars
    /\ UNCHANGED facVars

\* _set_state(value) without PWM: GPIO.output(number, value), which raises
\* ValueError for a value that is no level and RuntimeError on an input line
SetStateDigital(value) ==
    /\ Idle
    /\ ~pwm
    /\ IF value \notin DigitalInputs
         THEN /\ UNCHANGED level
              /\ Done("set_state", "PinInvalidState")
         ELSE IF hw_function # "output"
                THEN /\ UNCHANGED level
                     /\ Done("set_state", "PinSetInput")
                ELSE /\ level' = value \div Scale
                     /\ Done("set_state", "ok")
    /\ UNCHANGED <<pulled_up, pull, pwm, frequency, duty_cycle, bounce, edges, when_changed>>
    /\ UNCHANGED <<hw_function, hw_pud, hw_claimed, event>>
    /\ UNCHANGED histVars
    /\ UNCHANGED irqVars
    /\ UNCHANGED facVars

\* _set_state(value)
SetState(value) == SetStatePWM(value) \/ SetStateDigital(value)

\* level of the line once software PWM at duty cycle 0 drives it, and once the
\* PWM is stopped: an output line is held low
PwmLow == IF hw_function = "output" THEN 0 ELSE level

StartPWMKeepsFrequency(value, refused) ==
    IF refused
      THEN /\ frequency' = value
           /\ UNCHANGED <<pwm, duty_cycle, level, pre_pwm>>
           /\ err' = "PinPWMFixedValue"
      ELSE /\ pre_pwm' = (IF hw_function = "output" THEN GetState ELSE None)
           /\ pwm' = TRUE
           /\ level' = PwmLow
           /\ duty_cycle' = Some(0)
           /\ frequency' = value
           /\ err' = "ok"

\* _set_frequency, no PWM yet: GPIO.PWM(number, value) and start(0); a
\* RuntimeError of GPIO.PWM is raised as PinPWMFixedValue before any field
\* is assigned
StartPWM(value, refused) ==
    IF refused
      THEN /\ UNCHANGED <<pwm, frequency, duty_cycle, level, pre_pwm>>
           /\ err' = "PinPWMFixedValue"
      ELSE /\ pre_pwm' = (IF hw_function = "output" THEN GetState ELSE None)
           /\ pwm' = TRUE
           /\ level' = PwmLow
           /\ duty_cycle' = Some(0)
           /\ frequency' = value
           /\ err' = "ok"

ChangePWMRestarts(value) ==
    /\ frequency' = value
    /\ duty_cycle' = Some(0)
    /\ level' = PwmLow
    /\ UNCHANGED <<pwm, pre_pwm>>
    /\ err' = "ok"

\* _set_frequency, PWM running: ChangeFrequency(value)
ChangePWM(value) ==
    /\ frequency' = value
    /\ UNCHANGED <<pwm, duty_cycle, level, pre_pwm>>
    /\ err' = "ok"

StopPWMKeepsDuty ==
    /\ pre_pwm' = None
    /\ pwm' = FALSE
    /\ level' = PwmLow
    /\ UNCHANGED duty_cycle
    /\ frequency' = None

\* _set_frequency(None), PWM running: stop(), then the three fields are cleared
StopPWM ==
    /\ pre_pwm' = None
    /\ pwm' = FALSE
    /\ level' = PwmLow
    /\ duty_cycle' = None
    /\ frequency' = None

\* _set_frequency(value); refused: GPIO.PWM raises RuntimeError
SetFrequency(value, refused) ==
    /\ Idle
    /\ IF frequency = None /\ value # None
         THEN StartPWM(value, refused)
         ELSE IF frequency # None /\ value # None
                THEN ChangePWM(value)
                ELSE IF frequency # None /\ value = None
                       THEN StopPWM /\ err' = "ok"
                       ELSE /\ UNCHANGED <<pwm, frequency, duty_cycle, level, pre_pwm>>
                            /\ err' = "ok"
    /\ op' = "set_frequency"
    /\ UNCHANGED ctlVars
    /\ UNCHANGED <<pulled_up, pull, bounce, edges, when_changed>>
    /\ UNCHANGED <<hw_function, hw_pud, hw_claimed, event>>
    /\ UNCHANGED snap
    /\ UNCHANGED irqVars
    /\ UNCHANGED facVars

\* GPIO.cleanup(number): the line is given back as a floating input and its
\* edge detection is removed
GpioCleanup ==
    /\ hw_function' = "input"
    /\ hw_pud' = "floating"
    /\ hw_claimed' = FALSE
    /\ event' = None

ClosePinKeepsCallback ==
    /\ IF frequency # None
         THEN StopPWM
         ELSE UNCHANGED <<pwm, frequency, duty_cycle, level, pre_pwm>>
    /\ UNCHANGED when_changed
    /\ GpioCleanup

\* the body of RPiGPIOPin.close: self.frequency = None,
\* self.when_changed = None, GPIO.cleanup(self.number)
ClosePin ==
    /\ IF frequency # None
         THEN StopPWM
         ELSE UNCHANGED <<pwm, frequency, duty_cycle, level, pre_pwm>>
    /\ when_changed' = None
    /\ GpioCleanup

\* pin.close()
Close ==
    /\ Idle
    /\ ClosePin
    /\ Done("close", "ok")
    /\ UNCHANGED <<pulled_up, pull, bounce, edges>>
    /\ UNCHANGED snap
    /\ UNCHANGED irqVars
    /\ UNCHANGED facVars

\* factory.close(): the base class closes the pins the factory holds and
\* forgets them, then GPIO.cleanup() gives every line back
FactoryClose ==
    /\ Idle
    /\ hw_releases < MaxReleases
    /\ IF owned
         THEN ClosePin
         ELSE /\ UNCHANGED <<pwm, frequency, duty_cycle, level, pre_pwm, when_changed>>
              /\ GpioCleanup
    /\ owned' = FALSE
    /\ hw_releases' = hw_releases + 1
    /\ UNCHANGED hw_claims
    /\ Done("factory_close", "ok")
    /\ UNCHANGED <<pulled_up, pull, bounce, edges>>
    /\ UNCHANGED snap
    /\ UNCHANGED irqVars

---------------------------------------------------------------------------
\* bounce and edges: the callback is detached, the field assigned and the
\* callback attached again, in three steps of the control thread

\* int(value * 1000) for a value of 1/BounceScale seconds
BounceMillis(value) == (value * 1000) \div BounceScale

\* _set_bounce as it would be if it did not detach the callback
SetBounceCallNoDetach(value) ==
    /\ Idle
    /\ op' = "set_bounce"
    /\ IF value # None /\ value[1] < 0
         THEN /\ err' = "PinInvalidBounce"
              /\ UNCHANGED <<pc, arg, saved_f, snap>>
         ELSE /\ err' = "pending"
              /\ snap' = Some(Attributes)
              /\ saved_f' = when_changed
              /\ arg' = value
              /\ pc' = "bounce_detached"
    /\ UNCHANGED <<when_changed, event>>
    /\ UNCHANGED <<pulled_up, pull, pwm, frequency, duty_cycle, bounce, edges>>
    /\ UNCHANGED <<hw_function, hw_pud, hw_claimed, level>>
    /\ UNCHANGED pre_pwm
    /\ UNCHANGED irqVars
    /\ UNCHANGED facVars

\* _set_bounce(value): the check of the value; f = self.when_changed;
\* self.when_changed = None
SetBounceCall(value) ==
    /\ Idle
    /\ op' = "set_bounce"
    /\ IF value # None /\ value[1] < 0
         THEN /\ err' = "PinInvalidBounce"
              /\ UNCHANGED <<when_changed, event, pc, arg, saved_f, snap>>
         ELSE /\ err' = "pending"
              /\ snap' = Some(Attributes)
              /\ saved_f' = when_changed
              /\ arg' = value
              /\ AssignWhenChanged(None)
              /\ pc' = "bounce_detached"
    /\ UNCHANGED <<pulled_up, pull, pwm, frequency, duty_cycle, bounce, edges>>
    /\ UNCHANGED <<hw_function, hw_pud, hw_claimed, level>>
    /\ UNCHANGED pre_pwm
    /\ UNCHANGED irqVars
    /\ UNCHANGED facVars

\* _set_bounce: self._bounce = -666 if value is None else int(value * 1000)
SetBounceAssign ==
    /\ pc = "bounce_detached"
    /\ bounce' = (IF arg = None THEN NoBounce ELSE BounceMillis(arg[1]))
    /\ pc' = "bounce_assigned"
    /\ UNCHANGED <<pulled_up, pull, pwm, frequency, duty_cycle, edges, when_changed>>
    /\ UNCHANGED hwVars
    /\ UNCHANGED <<arg, saved_f, op, err>>
    /\ UNCHANGED histVars
    /\ UNCHANGED irqVars
    /\ UNCHANGED facVars

\* _set_bounce: finally: self.when_changed = f
SetBounceRestore ==
    /\ pc = "bounce_assigned"
    /\ AssignWhenChanged(saved_f)
    /\ pc' = "idle"
    /\ arg' = None
    /\ saved_f' = None
    /\ err' = (IF AttachRaises(saved_f) THEN "ValueError" ELSE "ok")
    /\ UNCHANGED <<pulled_up, pull, pwm, frequency, duty_cycle, bounce, edges>>
    /\ UNCHANGED <<hw_function, hw_pud, hw_claimed, level>>
    /\ UNCHANGED op
    /\ snap' = None
    /\ UNCHANGED pre_pwm
    /\ UNCHANGED irqVars
    /\ UNCHANGED facVars

\* _set_edges(value): f = self.when_changed; self.when_changed = None
SetEdgesCall(value) ==
    /\ Idle
    /\ op' = "set_edges"
    /\ err' = "pending"
    /\ saved_f' = when_changed
    /\ arg' = Some(value)
    /\ AssignWhenChanged(None)
    /\ pc' = "edges_detached"
    /\ UNCHANGED <<pulled_up, pull, pwm, frequency, duty_cycle, bounce, edges>>
    /\ UNCHANGED <<hw_function, hw_pud, hw_claimed, level>>
    /\ snap' = Some(Attributes)
    /\ UNCHANGED pre_pwm
    /\ UNCHANGED irqVars
    /\ UNCHANGED facVars

\* _set_edges: self._edges = self.GPIO_EDGES[value], a KeyError for an unknown name
SetEdgesAssign ==
    /\ pc = "edges_detached"
    /\ IF arg[1] \in GPIO_EDGES
         THEN /\ edges' = arg[1]
              /\ pc' = "edges_assigned"
         ELSE /\ UNCHANGED edges
              /\ pc' = "edges_raised"
    /\ UNCHANGED <<pulled_up, pull, pwm, frequency, duty_cycle, bounce, when_changed>>
    /\ UNCHANGED hwVars
    /\ UNCHANGED <<arg, saved_f, op, err>>
    /\ UNCHANGED histVars
    /\ UNCHANGED irqVars
    /\ UNCHANGED facVars

\* _set_edges: finally: self.when_changed = f
SetEdgesRestore ==
    /\ pc \in {"edges_assigned", "edges_raised"}
    /\ AssignWhenChanged(saved_f)
    /\ pc' = "idle"
    /\ arg' = None
    /\ saved_f' = None
    /\ err' = (IF AttachRaises(saved_f) THEN "ValueError"
                ELSE IF pc = "edges_raised" THEN "KeyError" ELSE "ok")
    /\ UNCHANGED <<pulled_up, pull, pwm, frequency, duty_cycle, bounce, edges>>
    /\ UNCHANGED <<hw_function, hw_pud, hw_claimed, level>>
    /\ UNCHANGED op
    /\ snap' = None
    /\ UNCHANGED pre_pwm
    /\ UNCHANGED irqVars
    /\ UNCHANGED facVars

\* the control thread is between the detach and the reattach of a call
InWindow == pc \in {"bounce_detached", "bounce_assigned",
                    "edges_detached", "edges_assigned", "edges_raised"}

---------------------------------------------------------------------------
\* The line and the notification thread

\* the registered edge mode selects an edge of direction dir
Selects(edge, dir) == edge = "both" \/ edge = dir

\* An edge of direction dir on the input line.  RPi.GPIO calls
\* _call_when_changed(channel) on its notification thread when detection is
\* registered, the edge mode selects the edge and the bounce time (filtered:
\* the edge falls inside it) does not suppress it.
HwEdge(dir, filtered) ==
    /\ hw_function = "input"
    /\ \/ dir = "rising" /\ level = 0 /\ level' = 1
       \/ dir = "falling" /\ level = 1 /\ level' = 0
    /\ IF /\ event # None
          /\ Selects(event[1].edge, dir)
          /\ ~(filtered /\ event[1].bouncetime > 0)
          /\ irq_pc = "idle"
         THEN /\ irq_pc' = "entered"
              /\ irq_dir' = dir
         ELSE UNCHANGED <<irq_pc, irq_dir>>
    /\ UNCHANGED irq_method
    /\ UNCHANGED <<pulled_up, hw_function, hw_pud, hw_claimed, event>>
    /\ UNCHANGED pinVars
    /\ UNCHANGED histVars
    /\ UNCHANGED <<pc, arg, saved_f, op, err>>
    /\ UNCHANGED facVars

\* _call_when_changed: the trampoline reads the attached callback
IrqFetch ==
    /\ irq_pc = "entered"
    /\ IF when_changed = None
         THEN /\ irq_pc' = "idle"
              /\ irq_dir' = "none"
              /\ UNCHANGED irq_method
         ELSE /\ irq_pc' = "fetched"
              /\ irq_method' = when_changed
              /\ UNCHANGED irq_dir
    /\ UNCHANGED pulled_up
    /\ UNCHANGED pinVars
    /\ UNCHANGED hwVars
    /\ UNCHANGED histVars
    /\ UNCHANGED <<pc, arg, saved_f, op, err>>
    /\ UNCHANGED facVars

\* _call_when_changed: the trampoline calls the callback it read
IrqInvoke ==
    /\ irq_pc = "fetched"
    /\ irq_pc' = "idle"
    /\ irq_dir' = "none"
    /\ irq_method' = None
    /\ UNCHANGED pulled_up
    /\ UNCHANGED pinVars
    /\ UNCHANGED hwVars
    /\ UNCHANGED histVars
    /\ UNCHANGED <<pc, arg, saved_f, op, err>>
    /\ UNCHANGED facVars

---------------------------------------------------------------------------
\* Specification

\* the calls of the control thread
NextCalls ==
    \/ \E value \in WhenChangedInputs : SetWhenChanged(value)
    \/ \E state \in DigitalInputs : OutputWithState(state)
    \/ \E value \in PullInputs : InputWithPull(value)
    \/ \E value \in FunctionInputs : SetFunction(value)
    \/ \E value \in PullInputs : SetPull(value)
    \/ \E value \in StateInputs : SetState(value)
    \/ \E value \in FrequencyInputs, refused \in BOOLEAN : SetFrequency(value, refused)
    \/ \E value \in BounceInputs : SetBounceCall(value)
    \/ SetBounceAssign
    \/ SetBounceRestore
    \/ \E value \in EdgesInputs : SetEdgesCall(value)
    \/ SetEdgesAssign
    \/ SetEdgesRestore
    \/ Close

\* the calls of the control thread and the closing of the factory
NextFactory ==
    \/ NextCalls
    \/ FactoryClose

\* the calls of the control thread, the edges on the line and the steps of the
\* notification thread
Next ==
    \/ NextCalls
    \/ \E dir \in {"rising", "falling"}, filtered \in BOOLEAN : HwEdge(dir, filtered)
    \/ IrqFetch
    \/ IrqInvoke

\* the control thread alone
SpecCalls == Init /\ [][NextCalls]_vars

\* the control thread, with the factory closed at any time
SpecFactory == Init /\ [][NextFactory]_vars

\* the control thread and the notification thread
Spec == Init /\ [][Next]_vars


---------------------------------------------------------------------------
\* Properties

\* a call of the control thread that begins and ends in this step
AtomicCall ==
    \/ \E value \in FunctionInputs : SetFunction(value)
    \/ \E value \in PullInputs : SetPull(value)
    \/ \E value \in StateInputs : SetState(value)
    \/ \E value \in FrequencyInputs, refused \in BOOLEAN : SetFrequency(value, refused)
    \/ \E value \in BounceInputs : SetBounceCall(value) /\ pc' = "idle"

\* a call of the control thread that took several steps ends in this step
Returns == pc # "idle" /\ pc' = "idle"

\* C1: on a pin with a board-fixed pull-up, whenever the function is input the
\* reported pull is up.
C1_FixedPullReported == (pulled_up /\ Function = "input") => GetPull = "up"

\* C2: a call that fails leaves every attribute of the pin as it was before
\* the call.
C2_FailedCallChangesNothing ==
    [][/\ (AtomicCall /\ err' # "ok") => Attributes' = Attributes
       /\ (Returns /\ err' # "ok") => Attributes' = snap[1]]_vars

\* C3: whenever edge detection is registered, in the states inside set_bounce
\* and set_edges too, it is registered with the stored edges and bounce.
C3_RegisteredWithStored ==
    event # None => (event[1].edge = edges /\ event[1].bouncetime = bounce)

\* C3 witness: set_bounce has returned with the callback attached again and
\* detection registered with the new bounce time.
C3_Witness ==
    /\ Idle /\ op = "set_bounce" /\ err = "ok"
    /\ event # None /\ bounce = 2 /\ edges = "falling"

\* C4: the user callback is never called between the detach and the reattach
\* of a set_edges or set_bounce call.
C4_NoCallbackInWindow == [][IrqInvoke => ~InWindow]_vars

\* C5: when set_edges or set_bounce fails with a callback attached, the caller
\* gets the error with the same callback attached, detection registered and
\* the stored edges and bounce as before the call.
C5_FailureRestoresCallback ==
    [][/\ (Returns /\ pc = "edges_raised" /\ snap[1].when_changed # None) =>
            /\ when_changed' = snap[1].when_changed
            /\ event' # None
            /\ GetEdges' = snap[1].edges
            /\ GetBounce' = snap[1].bounce
       /\ \A value \in BounceInputs :
            (SetBounceCall(value) /\ err' # "pending" /\ when_changed # None) =>
                /\ when_changed' = when_changed
                /\ event' # None
                /\ edges' = edges
                /\ bounce' = bounce]_vars

\* C6: on an input pin with a board-fixed pull-up, set_pull(v) succeeds exactly
\* when v is up, and every other v fails with PinFixedPull and leaves the
\* reported pull as it was.
C6_SetPullOnFixedPull ==
    [][\A value \in PullInputs :
          (SetPull(value) /\ pulled_up /\ Function = "input") =>
              /\ (err' = "ok") <=> (value = "up")
              /\ value = "up" => GetPull' = "up"
              /\ value # "up" => (err' = "PinFixedPull" /\ GetPull' = GetPull)]_vars

\* C6 witness: set_pull has failed with PinFixedPull on an input pin with a
\* board-fixed pull-up.
C6_Witness ==
    /\ pulled_up /\ Function = "input"
    /\ op = "set_pull" /\ err = "PinFixedPull"

\* C7: whenever the function is output the reported pull is floating.
C7_OutputPullFloating == Function = "output" => GetPull = "floating"

\* C7 witness: output_with_state has made a pin with a board-fixed pull-up an
\* output.
C7_Witness == pulled_up /\ Function = "output" /\ op = "output_with_state"

\* C8: when PWM started on an output pin is stopped, with only set_state calls
\* in between, get_state returns the digital value the pin had before the PWM
\* was started.
C8_StopRestoresDigital ==
    [][(frequency # None /\ frequency' = None
        /\ pre_pwm # None /\ Function = "output") =>
            GetState' = pre_pwm]_vars

\* C9: with PWM running, set_state(x) for x in [0, 1] succeeds and get_state
\* then returns x; for x outside [0, 1] it fails with PinInvalidState and
\* get_state returns what it returned before.
C9_DutyCycleRoundTrip ==
    [][\A x \in StateInputs :
          SetStatePWM(x) =>
              IF 0 <= x /\ x <= Scale
                THEN err' = "ok" /\ GetState' = Some(x)
                ELSE err' = "PinInvalidState" /\ GetState' = GetState]_vars

\* C9 witness: set_state(0.5) has succeeded with PWM running.
C9_Witness ==
    /\ pwm /\ op = "set_state" /\ err = "ok"
    /\ GetState = Some(Scale \div 2)

\* C10: without PWM, set_state(v) with a digital level v fails with
\* PinSetInput on an input pin and changes nothing, and succeeds on an output
\* pin, after which get_state returns v.
C10_DigitalSetState ==
    [][\A v \in DigitalInputs :
          SetStateDigital(v) =>
              /\ Function = "input" =>
                    /\ err' = "PinSetInput"
                    /\ Attributes' = Attributes
                    /\ UNCHANGED hwVars
              /\ Function = "output" =>
                    /\ err' = "ok"
                    /\ GetState' = Some(v)]_vars

\* C10 witness: set_state(true) has succeeded on an output pin without PWM and
\* get_state returns true.
C10_Witness ==
    /\ ~pwm /\ Function = "output"
    /\ op = "set_state" /\ err = "ok"
    /\ GetState = Some(Scale)

\* C11: close() leaves frequency None with no PWM running, when_changed None
\* with edge detection removed and the line given back; a close() that follows
\* a close() succeeds and leaves the pin and the line exactly as they were.
C11_CloseReleases ==
    [][Close =>
          /\ err' = "ok"
          /\ GetFrequency' = None /\ ~pwm'
          /\ when_changed' = None /\ event' = None
          /\ ~hw_claimed'
          /\ (op = "close" => /\ Attributes' = Attributes
                              /\ UNCHANGED <<pulled_up, pinVars, hwVars>>)]_vars

\* C11 witness: a pin that had its edges and bounce configured has been closed.
C11_Witness ==
    /\ Idle /\ op = "close" /\ err = "ok"
    /\ ~hw_claimed /\ frequency = None /\ when_changed = None
    /\ edges = "falling" /\ bounce = 2

\* C12: the factory claims RPi.GPIO once and releases it once, however often
\* close() is called.
C12_ReleasedOnce == hw_claims = 1 /\ hw_releases <= hw_claims

\* C13: on a pin without PWM, set_frequency(f) either starts PWM, after which
\* the frequency reads f and the state reads duty cycle 0, or is refused by
\* RPi.GPIO and fails with PinPWMFixedValue, leaving the frequency None and
\* every attribute, the digital state included, as it was;
\* set_frequency(None) changes nothing.
C13_StartOrRefuse ==
    [][\A value \in FrequencyInputs, refused \in BOOLEAN :
          (SetFrequency(value, refused) /\ frequency = None) =>
              IF value = None
                THEN /\ err' = "ok"
                     /\ Attributes' = Attributes
                     /\ UNCHANGED <<pinVars, hwVars>>
                ELSE IF refused
                       THEN /\ err' = "PinPWMFixedValue"
                            /\ GetFrequency' = None /\ ~pwm'
                            /\ GetState' = Some(level * Scale)
                            /\ Attributes' = Attributes
                            /\ UNCHANGED <<pinVars, hwVars>>
                       ELSE /\ err' = "ok"
                            /\ pwm'
                            /\ GetFrequency' = value
                            /\ GetState' = Some(0)]_vars

\* C13 witness: RPi.GPIO has refused to start PWM and the pin is left without
\* a frequency.
C13_Witness ==
    /\ op = "set_frequency" /\ err = "PinPWMFixedValue"
    /\ frequency = None /\ ~pwm /\ duty_cycle = None

\* C14: on a pin with PWM running, set_frequency(g) with g not None, equal to
\* the current frequency or not, succeeds and changes the frequency only: the
\* duty cycle, every other attribute and the line stay as they were and PWM
\* keeps running.
C14_ChangeFrequencyOnly ==
    [][\A value \in FrequencyInputs \ {None}, refused \in BOOLEAN :
          (SetFrequency(value, refused) /\ frequency # None) =>
              /\ err' = "ok"
              /\ GetFrequency' = value
              /\ pwm' /\ pwm
              /\ GetState' = GetState
              /\ [Attributes' EXCEPT !.frequency = None]
                   = [Attributes EXCEPT !.frequency = None]
              /\ UNCHANGED <<pull, duty_cycle, bounce, edges, when_changed>>
              /\ UNCHANGED hwVars]_vars

\* C14 witness: the frequency has been set on a running PWM whose duty cycle
\* is 0.5.
C14_Witness ==
    /\ op = "set_frequency" /\ err = "ok"
    /\ pwm /\ GetState = Some(Scale \div 2)

\* C20: the PWM object is present exactly when the frequency is not None and
\* exactly when the tracked duty cycle is not None, in every state the calls
\* of the control thread reach.
C20_PwmFieldsAgree ==
    /\ pwm <=> (frequency # None)
    /\ (frequency # None) <=> (duty_cycle # None)
    /\ (GetFrequency # None) <=> (pwm /\ GetState = duty_cycle)

\* C20 witness: set_function has been called with PWM running and the three
\* fields are all set.
C20_Witness ==
    /\ op = "set_function" /\ err = "ok"
    /\ pwm /\ frequency # None /\ duty_cycle = Some(Scale)

\* C15: an edge whose direction the current edges setting does not select
\* never reaches the callback: RPi.GPIO does not call the trampoline for it,
\* whether edges is as constructed or was changed by set_edges with the
\* callback attached.
C15_UnselectedEdgeIgnored ==
    [][\A dir \in {"rising", "falling"}, filtered \in BOOLEAN :
          (HwEdge(dir, filtered) /\ ~Selects(edges, dir)) =>
              UNCHANGED irqVars]_vars

\* C15 witness: set_edges('falling') has returned with the callback attached
\* and registered, the line has risen and no callback is under way.
C15_Witness ==
    /\ Idle /\ op = "set_edges" /\ err = "ok"
    /\ when_changed # None /\ event # None /\ edges = "falling"
    /\ level = 1 /\ irq_pc = "idle"

\* C16: set_bounce(v) with v < 0 fails with PinInvalidBounce and leaves bounce,
\* the callback and its registration as they were; set_bounce(0) returns
\* without error with bounce reading 0, and with the callback that was
\* attached registered again with a bounce time that filters no edge.
C16_BounceBoundary ==
    [][/\ \A value \in BounceInputs \ {None} :
            (SetBounceCall(value) /\ value[1] < 0) =>
                /\ err' = "PinInvalidBounce"
                /\ UNCHANGED <<bounce, when_changed, event>>
       /\ (Returns /\ op = "set_bounce" /\ arg = Some(0)) =>
            /\ err' = "ok"
            /\ GetBounce' = Some(0)
            /\ when_changed' = snap[1].when_changed
            /\ when_changed' # None =>
                  (event' # None /\ event'[1].bouncetime <= 0)]_vars

\* C18: after every completed call on the pin, edge detection is registered
\* exactly when a callback is attached.
C18_RegisteredIffAttached ==
    Idle => ((event # None) <=> (when_changed # None))

\* C17: set_pull(v) on a pin whose function is not input fails with
\* PinFixedPull for every v, a recognised pull name or not, and the pull stays
\* floating; on an input pin without a board-fixed pull-up, an unknown v fails
\* with PinInvalidPull and the pull stays as it was, and a known v succeeds,
\* after which the pull reads v.
C17_SetPullChecks ==
    [][\A value \in PullInputs :
          SetPull(value) =>
              /\ Function # "input" =>
                    /\ err' = "PinFixedPull"
                    /\ GetPull = "floating" /\ GetPull' = "floating"
                    /\ Function' = Function
              /\ (Function = "input" /\ ~pulled_up /\ value \notin GPIO_PULL_UPS) =>
                    /\ err' = "PinInvalidPull"
                    /\ GetPull' = GetPull
                    /\ UNCHANGED hwVars
              /\ (Function = "input" /\ ~pulled_up /\ value \in GPIO_PULL_UPS) =>
                    /\ err' = "ok"
                    /\ GetPull' = value
                    /\ hw_pud' = value]_vars

\* C17 witness: set_pull has failed with PinFixedPull on an output pin that
\* has no board-fixed pull-up.
C17_Witness ==
    /\ ~pulled_up /\ Function = "output"
    /\ op = "set_pull" /\ err = "PinFixedPull" /\ GetPull = "floating"

\* C19: whenever the line is set up as an input, the pull the pin records is
\* the pull resistor last set on the line.
C19_PullMirrorsLine ==
    (hw_claimed /\ hw_function = "input") => pull = hw_pud

===========================================================================
